---------------------------- MODULE Spec2Model ----------------------------
(***************************************************************************)
(* A model of the SegFlow mosaic coordinator (src/src/segflow/core.py):    *)
(* padding, tile extraction, confidence reduction, overlap density,        *)
(* coverage scoring, recombination and cropping.                           *)
(*                                                                         *)
(* Representation.                                                         *)
(*   - A 2-D array is a record [h, w, px] with px a function on            *)
(*     (0..h-1) \X (0..w-1).  The channel axis of the source image is not  *)
(*     padded (pad width (0, 0)) and never indexed by the pipeline, so a   *)
(*     pixel carries one value.                                            *)
(*   - Python's None is the empty tuple <<>>, a present value v is <<v>>.  *)
(*   - A coverage score w1 * mean + w2 * sum is kept as an exact fraction  *)
(*     <<num, den>> with the weights in tenths; scores are compared by     *)
(*     cross multiplication.  Rounding of the float32 score map is not     *)
(*     represented.                                                        *)
(***************************************************************************)
EXTENDS Integers, Sequences, FiniteSets, TLC

(* ------------------------------ bounds -------------------------------- *)
MaxTileSize == 4      \* tile sizes 1..MaxTileSize in the tiling specification
MaxStride   == 4      \* strides 1..MaxStride in the tiling specification
MaxImageSize == 4     \* image heights and widths 1..MaxImageSize
MaxCropSize == 3      \* raster heights and widths 1..MaxCropSize in the crop specification
MaxPad == 2           \* pad amounts 0..MaxPad in the crop specification
MaxLabel == 1         \* base labels 1..MaxLabel of the predicted label tiles
MaxCalls == 2         \* calls of ingest_tile_segmentation on one coordinator
MaxBatchTiles == 4    \* tiles 0..MaxBatchTiles handed to run_segmentation
MaxBatchSize == 3     \* batch sizes 1..MaxBatchSize
MaxReceived == 5      \* label tiles received in the specification of calls in any order

(* ------------------------- program constants -------------------------- *)
DefaultTileSize == 512
DefaultStride == 256

(* ------------------------------ helpers ------------------------------- *)
None == <<>>
Some(v) == <<v>>
IsNone(o) == o = <<>>
Val(o) == o[1]

Max(a, b) == IF a >= b THEN a ELSE b
Min(a, b) == IF a <= b THEN a ELSE b

Pixels(h, w) == (0 .. (h - 1)) \X (0 .. (w - 1))

\* np.zeros((h, w))
Zeros(h, w) == [h |-> h, w |-> w, px |-> [p \in Pixels(h, w) |-> 0]]

\* Python range(0, stop, step) as a sequence
PyRange(stop, step) ==
    LET n == IF stop <= 0 THEN 0 ELSE ((stop - 1) \div step) + 1
    IN  [k \in 1 .. n |-> (k - 1) * step]

\* a[r0:r1, c0:c1] for bounds already normalised into 0..h and 0..w
Slice(a, r0, r1, c0, c1) ==
    LET hh == Max(r1 - r0, 0)
        ww == Max(c1 - c0, 0)
    IN  [h |-> hh, w |-> ww,
         px |-> [p \in Pixels(hh, ww) |-> a.px[<<r0 + p[1], c0 + p[2]>>]]]

\* Python's normalisation of a slice bound i on an axis of length n
SliceIndex(i, n) == IF i < 0 THEN Max(i + n, 0) ELSE Min(i, n)

(* ------------------------------ state --------------------------------- *)
VARIABLES
    tile_size, stride,                 \* self.tile_size, self.stride
    average_weight, sum_weight,        \* self.average_weight, self.sum_weight (tenths)
    min_pixels,                        \* self.min_pixels
    image,                             \* self.image
    image_padded,                      \* self.image_padded
    pad_top, pad_bottom, pad_left, pad_right,
    tiles, positions,                  \* self.tiles, self.positions
    cropped,                           \* value returned by the last _crop_padded
    err,                               \* exception raised by the last call, "none" if it returned
    segmentation_tiles,                \* the caller's array of predicted label tiles
    confidence_segmentation_tiles,     \* locals of ingest_tile_segmentation
    full_overlap_mask,
    index_coverage_tiles,
    full_segmentation_mask,
    full_score_map,
    total_cells_before,                \* the statistic printed as "Total cells before recombination"
    idx,                               \* number of tiles the recombination loop has processed
    pc,                                \* "idle", or "recombine" inside ingest_tile_segmentation
    results,                           \* mosaics returned by the calls of ingest_tile_segmentation
    ctor_args,                         \* the arguments the constructor was called with
    call,                              \* the operation invoked last, in the specifications that record it
    blended,                           \* value returned by the last combine_continuous_tiles
    batch_run,                         \* the frame of a call of run_segmentation
    label_array,                       \* the pixels of a SegmentationImage
    centroids_cache,                   \* its _centroids_cache
    checksum,                          \* its _checksum
    returned                           \* value returned by the last call on the SegmentationImage

coordVars == <<tile_size, stride, average_weight, sum_weight, min_pixels,
               image, image_padded, pad_top, pad_bottom, pad_left, pad_right,
               tiles, positions>>

ingestLocals == <<confidence_segmentation_tiles, full_overlap_mask, index_coverage_tiles,
                  full_segmentation_mask, full_score_map, total_cells_before, idx>>

ingestVars == <<segmentation_tiles, ingestLocals, pc, results>>

\* observations of the calls; an action leaves them as they are unless the
\* specification it is used in records them
objVars == <<batch_run, label_array, centroids_cache, checksum, returned>>

auxVars == <<ctor_args, call, blended, objVars>>

vars == <<coordVars, cropped, err, ingestVars, auxVars>>

\* SegFlow(tile_size, stride) called with the default weights and threshold
DefaultArgs == [average_weight |-> 7, sum_weight |-> 3, min_pixels |-> 5]

\* run_segmentation has not been called and no SegmentationImage is observed
NoObjects ==
    /\ batch_run = None
    /\ label_array = None
    /\ centroids_cache = None
    /\ checksum = None
    /\ returned = None

NoAux ==
    /\ ctor_args = DefaultArgs
    /\ call = "none"
    /\ blended = None
    /\ NoObjects

\* no call of ingest_tile_segmentation has been made
NoIngest ==
    /\ segmentation_tiles = None
    /\ confidence_segmentation_tiles = None
    /\ full_overlap_mask = None
    /\ index_coverage_tiles = None
    /\ full_segmentation_mask = None
    /\ full_score_map = None
    /\ total_cells_before = None
    /\ idx = 0
    /\ pc = "idle"
    /\ results = <<>>

(* --------------------------- SegFlow.__init__ -------------------------- *)
SegFlowInit(ts, st) ==
    /\ tile_size = ts
    /\ stride = st
    /\ average_weight = 7
    /\ sum_weight = 3
    /\ min_pixels = 5
    /\ image = None
    /\ image_padded = None
    /\ pad_top = None
    /\ pad_bottom = None
    /\ pad_left = None
    /\ pad_right = None
    /\ tiles = None
    /\ positions = None

(* ------------------------- load_numpy_arrays --------------------------- *)
\* An image whose pixels are pairwise distinct: pixel (r, c) holds r * w + c + 1.
DistinctImage(h, w) ==
    [h |-> h, w |-> w, px |-> [p \in Pixels(h, w) |-> p[1] * w + p[2] + 1]]

LoadNumpyArrays(h, w) ==
    /\ pc = "idle"
    /\ image = None
    /\ image' = Some(DistinctImage(h, w))
    /\ err' = "none"
    /\ UNCHANGED <<tile_size, stride, average_weight, sum_weight, min_pixels,
                   image_padded, pad_top, pad_bottom, pad_left, pad_right,
                   tiles, positions, cropped, ingestVars>>

(* ------------------------------ pad_image ------------------------------ *)
\* total pad of one dimension of size s
PadTotal(s, ts, st) == ts + ((ts - ((s - ts) % st)) % st)

\* index read by np.pad(mode='reflect') for the padded coordinate i - before;
\* an axis of length 1 is extended with its only value
ReflectIndex(i, n) ==
    IF n = 1 THEN 0
    ELSE LET period == 2 * (n - 1)
             k == i % period
         IN  IF k < n THEN k ELSE period - k

\* mutant: the image is placed after the bottom/right pad amounts
NpPadReflect_swapped(a, top, bottom, left, right) ==
    LET hh == a.h + top + bottom
        ww == a.w + left + right
    IN  [h |-> hh, w |-> ww,
         px |-> [p \in Pixels(hh, ww) |->
                   a.px[<<ReflectIndex(p[1] - bottom, a.h), ReflectIndex(p[2] - right, a.w)>>]]]

NpPadReflect(a, top, bottom, left, right) ==
    LET hh == a.h + top + bottom
        ww == a.w + left + right
    IN  [h |-> hh, w |-> ww,
         px |-> [p \in Pixels(hh, ww) |->
                   a.px[<<ReflectIndex(p[1] - top, a.h), ReflectIndex(p[2] - left, a.w)>>]]]

PadImage ==
    /\ pc = "idle"
    /\ err' = "none"
    /\ IF ~IsNone(image)
       THEN LET height == Val(image).h
                width == Val(image).w
                pad_height_total == PadTotal(height, tile_size, stride)
                pad_width_total == PadTotal(width, tile_size, stride)
                top == pad_height_total \div 2
                bottom == pad_height_total - top
                left == pad_width_total \div 2
                right == pad_width_total - left
            IN  /\ pad_top' = Some(top)
                /\ pad_bottom' = Some(bottom)
                /\ pad_left' = Some(left)
                /\ pad_right' = Some(right)
                /\ image_padded' = Some(NpPadReflect(Val(image), top, bottom, left, right))
       ELSE UNCHANGED <<pad_top, pad_bottom, pad_left, pad_right, image_padded>>
    /\ UNCHANGED <<tile_size, stride, average_weight, sum_weight, min_pixels,
                   image, tiles, positions, cropped, ingestVars>>

(* ---------------------------- _extract_tiles --------------------------- *)
\* positions in the order of the double loop (row-major)
ExtractPositions(h, w, ts, st) ==
    LET ys == PyRange(h - ts + 1, st)
        xs == PyRange(w - ts + 1, st)
        n == Len(ys) * Len(xs)
    IN  [k \in 1 .. n |-> <<ys[((k - 1) \div Len(xs)) + 1], xs[((k - 1) % Len(xs)) + 1]>>]

ExtractTilesOf(a, ts, st) ==
    LET pos == ExtractPositions(a.h, a.w, ts, st)
    IN  [k \in 1 .. Len(pos) |->
            Slice(a, pos[k][1], pos[k][1] + ts, pos[k][2], pos[k][2] + ts)]

(* ----------------------------- extract_tiles --------------------------- *)
ExtractTiles ==
    /\ pc = "idle"
    /\ IF ~IsNone(tiles) /\ ~IsNone(positions)
       THEN /\ err' = "none"
            /\ UNCHANGED <<tiles, positions>>
       ELSE IF IsNone(image_padded)
       THEN /\ err' = "AttributeError"
            /\ UNCHANGED <<tiles, positions>>
       ELSE /\ err' = "none"
            /\ tiles' = Some(ExtractTilesOf(Val(image_padded), tile_size, stride))
            /\ positions' = Some(ExtractPositions(Val(image_padded).h, Val(image_padded).w,
                                                  tile_size, stride))
    /\ UNCHANGED <<tile_size, stride, average_weight, sum_weight, min_pixels,
                   image, image_padded, pad_top, pad_bottom, pad_left, pad_right, cropped,
                   ingestVars>>

(* ----------------------------- _crop_padded ---------------------------- *)
\* padded_image_to_crop[pad_top:-pad_bottom, pad_left:-pad_right] and the two
\* zero-padding branches, with Python's slice bounds (-0 is 0)
CropPadded(a, top, bottom, left, right) ==
    LET r0 == SliceIndex(top, a.h)
        c0 == SliceIndex(left, a.w)
        first == Slice(a, r0, SliceIndex(0 - bottom, a.h), c0, SliceIndex(0 - right, a.w))
        second == IF bottom = 0
                  THEN Slice(a, r0, a.h, c0, SliceIndex(0 - right, a.w))
                  ELSE first
    IN  IF right = 0
        THEN Slice(second, 0, second.h, SliceIndex(left, second.w), second.w)
        ELSE second

\* self._crop_padded(self.image_padded)
CropImagePadded ==
    /\ pc = "idle"
    /\ IF IsNone(image_padded)
       THEN /\ err' = "ValueError"
            /\ UNCHANGED cropped
       ELSE /\ err' = "none"
            /\ cropped' = Some(CropPadded(Val(image_padded), Val(pad_top), Val(pad_bottom),
                                          Val(pad_left), Val(pad_right)))
    /\ UNCHANGED <<coordVars, ingestVars>>

(* ------------------- _calculate_high_confidence_tiles ------------------ *)
\* mutant: a margin of a tenth of the tile
Margin_tenth(ts) == ts \div 10

\* margin = self.tile_size // 8
Margin(ts) == ts \div 8

\* np.unique of the rows and columns [r0, r1) x [c0, c1) of a tile, without 0
LabelsInRegion(tile, r0, r1, c0, c1) ==
    {tile.px[p] : p \in {q \in Pixels(tile.h, tile.w) :
                            /\ r0 <= q[1] /\ q[1] < r1
                            /\ c0 <= q[2] /\ q[2] < c1}} \ {0}

\* np.unique(tile) without 0
NonZeroLabels(tile) == {tile.px[p] : p \in Pixels(tile.h, tile.w)} \ {0}

SetMax(S) == CHOOSE m \in S : \A x \in S : x <= m

\* np.where(np.isin(tile, labels_in_high_confidence), tile, 0)
CleanTile(tile, ts) ==
    LET m == Margin(ts)
        labels_in_high_confidence ==
            LabelsInRegion(tile, SliceIndex(m, tile.h), SliceIndex(ts - m, tile.h),
                                 SliceIndex(m, tile.w), SliceIndex(ts - m, tile.w))
    IN  [tile EXCEPT !.px = [p \in Pixels(tile.h, tile.w) |->
            IF tile.px[p] \in labels_in_high_confidence THEN tile.px[p] ELSE 0]]

\* mutant: the labels are not shifted by the running maximum
AdjustTile_no_offset(cleaned, max_label) == cleaned

\* label_mapping = {label: label + max_label}; pixels of no mapped label stay 0
AdjustTile(cleaned, max_label) ==
    LET labels_to_adjust == NonZeroLabels(cleaned)
    IN  [cleaned EXCEPT !.px = [p \in Pixels(cleaned.h, cleaned.w) |->
            IF cleaned.px[p] \in labels_to_adjust THEN cleaned.px[p] + max_label ELSE 0]]

\* mutant: max_label = tile_segmentation_adjusted.max() without the test
\* labels_to_adjust.size > 0; the maximum of an all-zero tile is 0
NextMaxLabel_reset(adjusted, max_label) ==
    IF NonZeroLabels(adjusted) # {} THEN SetMax(NonZeroLabels(adjusted)) ELSE 0

\* max_label after a tile: the maximum of the adjusted tile if any label survived
NextMaxLabel(adjusted, max_label) ==
    IF NonZeroLabels(adjusted) # {} THEN SetMax(NonZeroLabels(adjusted)) ELSE max_label

\* the loop over zip(segmentation_tiles, self.positions), after its first k
\* iterations: the confidence tiles appended so far and the running max_label
RECURSIVE HighConfidenceLoop(_, _, _)
HighConfidenceLoop(seg, k, ts) ==
    IF k = 0
    THEN [out |-> <<>>, max_label |-> 0]
    ELSE LET prev == HighConfidenceLoop(seg, k - 1, ts)
             adjusted == AdjustTile(CleanTile(seg[k], ts), prev.max_label)
         IN  [out |-> Append(prev.out, adjusted),
              max_label |-> NextMaxLabel(adjusted, prev.max_label)]

CalculateHighConfidenceTiles(seg, pos, ts) ==
    HighConfidenceLoop(seg, Min(Len(seg), Len(pos)), ts).out

\* what the argument array holds after the reduction: np.where and
\* np.zeros_like allocate new arrays, the argument is never written
SegmentationTilesAfter_inplace(seg, conf) == conf

SegmentationTilesAfter(seg, conf) == seg

(* -------------------------- _calculate_overlaps ------------------------ *)
\* pixel p of the whole raster lies in the tile region at pos
InRegion(pos, p, ts) ==
    /\ pos[1] <= p[1] /\ p[1] < pos[1] + ts
    /\ pos[2] <= p[2] /\ p[2] < pos[2] + ts

\* the tile-local coordinate of p
Local(pos, p) == <<p[1] - pos[1], p[2] - pos[2]>>

\* mutant: every claimed pixel is set to 1, a repeated claim is not counted
OverlapStep_set_only(mask, tile, pos, ts) ==
    [mask EXCEPT !.px = [p \in Pixels(mask.h, mask.w) |->
        IF InRegion(pos, p, ts) /\ Local(pos, p) \in DOMAIN tile.px
        THEN IF tile.px[Local(pos, p)] > 0 THEN 1 ELSE mask.px[p]
        ELSE mask.px[p]]]

\* one iteration: increment where the tile is non-zero and the mask is
\* positive, set to 1 where the tile is non-zero and the mask is 0
OverlapStep(mask, tile, pos, ts) ==
    [mask EXCEPT !.px = [p \in Pixels(mask.h, mask.w) |->
        IF InRegion(pos, p, ts) /\ Local(pos, p) \in DOMAIN tile.px
        THEN LET non_zero == tile.px[Local(pos, p)] > 0
                 overlap == non_zero /\ mask.px[p] > 0
             IN  IF overlap THEN mask.px[p] + 1
                 ELSE IF non_zero THEN 1
                 ELSE mask.px[p]
        ELSE mask.px[p]]]

RECURSIVE OverlapLoop(_, _, _, _, _, _)
OverlapLoop(conf, pos, k, h, w, ts) ==
    IF k = 0 THEN Zeros(h, w)
    ELSE OverlapStep(OverlapLoop(conf, pos, k - 1, h, w, ts), conf[k], pos[k], ts)

CalculateOverlaps(conf, pos, h, w, ts) ==
    OverlapLoop(conf, pos, Min(Len(conf), Len(pos)), h, w, ts)

(* ------------------------ _calculate_tile_overlaps --------------------- *)
\* np.sum of a set of pixels of an integer raster
RECURSIVE SumPixels(_, _)
SumPixels(a, S) ==
    IF S = {} THEN 0
    ELSE LET p == CHOOSE q \in S : TRUE
         IN  a.px[p] + SumPixels(a, S \ {p})

\* mutant: instances one pixel below the threshold are scored too
HasEnoughPixels_off_by_one(num_pixels, mp) == num_pixels >= mp - 1

\* if num_pixels >= min_pixels
HasEnoughPixels(num_pixels, mp) == num_pixels >= mp

\* w1 * avg_overlap + w2 * sum_overlap as a fraction, weights in tenths
Score(sum_overlap, num_pixels, w1, w2) ==
    <<sum_overlap * (w1 + w2 * num_pixels), 10 * num_pixels>>

ZeroScore == <<0, 1>>

\* mutant: a score that ties with the existing one also overwrites
ScoreGreater_or_equal(a, b) == a[1] * b[2] >= b[1] * a[2]

\* a > b on scores
ScoreGreater(a, b) == a[1] * b[2] > b[1] * a[2]

\* the dictionary of one tile: label -> score, for the labels with enough pixels
TileIndexCoverage(tile, overlap_tile, w1, w2, mp) ==
    LET label_mask(l) == {p \in Pixels(tile.h, tile.w) : tile.px[p] = l}
        scored == {l \in NonZeroLabels(tile) :
                      HasEnoughPixels(Cardinality(label_mask(l)), mp)}
    IN  [l \in scored |->
            Score(SumPixels(overlap_tile, label_mask(l)), Cardinality(label_mask(l)), w1, w2)]

CalculateTileOverlaps(mask, conf, ts, st, w1, w2, mp) ==
    LET overlap_mask_tiles == ExtractTilesOf(mask, ts, st)
    IN  [k \in 1 .. Min(Len(conf), Len(overlap_mask_tiles)) |->
            TileIndexCoverage(conf[k], overlap_mask_tiles[k], w1, w2, mp)]

(* ------------------------ ingest_tile_segmentation --------------------- *)
\* tile_score_map at a tile-local pixel
TileScore(tile, index_coverage, q) ==
    IF tile.px[q] \in DOMAIN index_coverage THEN index_coverage[tile.px[q]] ELSE ZeroScore

\* overwrite_mask at pixel p of the whole raster for the tile at pos
Overwrite(tile, index_coverage, pos, score_map, p, ts) ==
    /\ InRegion(pos, p, ts)
    /\ ScoreGreater(TileScore(tile, index_coverage, Local(pos, p)), score_map.px[p])
    /\ tile.px[Local(pos, p)] > 0

\* mutant: the label written to the mosaic is one more than the tile's label
MosaicLabel_shifted(tile, q) == tile.px[q] + 1

\* full_mask_region[overwrite_mask] = tile_segmentation[overwrite_mask]
MosaicLabel(tile, q) == tile.px[q]

\* total_cells_before = len(np.unique(np.concatenate([np.unique(ts) for ts in
\* confidence_segmentation_tiles]))) - 1
TotalCellsBefore(conf) ==
    Cardinality(UNION {{conf[k].px[p] : p \in Pixels(conf[k].h, conf[k].w)} :
                          k \in 1 .. Len(conf)}) - 1

\* number of iterations of the loop over zip(confidence tiles, positions, coverage)
NumRecombine ==
    Min(Len(Val(confidence_segmentation_tiles)),
        Min(Len(Val(positions)), Len(Val(index_coverage_tiles))))

\* label tiles a predictor may return, by shape of their instances
LabelTile(pat, ts) ==
    [h |-> ts, w |-> ts, px |-> [p \in Pixels(ts, ts) |->
        CASE pat.kind = "empty"  -> 0
          [] pat.kind = "full"   -> pat.l
          [] pat.kind = "split"  -> IF p[2] < ts - 1 THEN pat.l ELSE pat.l + 1
          [] pat.kind = "small"  -> IF p[1] < 2 /\ p[2] < 2 THEN pat.l ELSE 0
          [] pat.kind = "rows"   -> IF p[1] >= 1 THEN pat.l + 2 ELSE 0
          [] pat.kind = "border" -> IF p[1] = 0 THEN pat.l ELSE 0
          [] pat.kind = "edge"   -> IF p[1] = 0 THEN pat.l + 1 ELSE pat.l
          [] pat.kind = "hook"   -> IF p[2] = 0 \/ p = <<1, 1>> THEN pat.l ELSE 0]]

PatternsOf(fixedKinds, labelledKinds) ==
    {[kind |-> "empty", l |-> 0]}
        \cup {[kind |-> k, l |-> 1] : k \in fixedKinds}
        \cup {[kind |-> k, l |-> l] : k \in labelledKinds, l \in 1 .. MaxLabel}

\* predictions used by the pipeline specification
Patterns == PatternsOf({"split", "small", "rows"}, {"full"})

\* predictions used by the confidence-reduction specification
ReducePatterns == PatternsOf({"split", "small", "border", "hook"}, {"full", "edge"})

\* run_segmentation: one label tile per extracted tile, chosen by the predictor
RunSegmentation(P) ==
    /\ pc = "idle"
    /\ ~IsNone(tiles)
    /\ segmentation_tiles = None
    /\ \E f \in [1 .. Len(Val(tiles)) -> P] :
          segmentation_tiles' =
              Some([k \in 1 .. Len(Val(tiles)) |-> LabelTile(f[k], tile_size)])
    /\ err' = "none"
    /\ UNCHANGED <<coordVars, cropped, ingestLocals, pc, results>>

\* mutant: no check of self.positions; zip(segmentation_tiles, None) then fails
IngestPrecondition_unchecked(pos) == IF IsNone(pos) THEN "TypeError" ELSE "none"

\* if self.positions is None: raise ValueError("Tiles must be extracted first")
IngestPrecondition(pos) == IF IsNone(pos) THEN "ValueError" ELSE "none"

\* ingest_tile_segmentation up to the start of the recombination loop
IngestStart ==
    /\ pc = "idle"
    /\ ~IsNone(segmentation_tiles)
    /\ Len(results) < MaxCalls
    /\ IF IngestPrecondition(positions) # "none"
       THEN /\ err' = IngestPrecondition(positions)
            /\ UNCHANGED <<segmentation_tiles, ingestLocals, pc>>
       ELSE LET conf == CalculateHighConfidenceTiles(Val(segmentation_tiles),
                                                     Val(positions), tile_size)
                h == Val(image_padded).h
                w == Val(image_padded).w
                mask == CalculateOverlaps(conf, Val(positions), h, w, tile_size)
            IN  /\ confidence_segmentation_tiles' = Some(conf)
                /\ segmentation_tiles' =
                       Some(SegmentationTilesAfter(Val(segmentation_tiles), conf))
                /\ full_overlap_mask' = Some(mask)
                /\ index_coverage_tiles' =
                       Some(CalculateTileOverlaps(mask, conf, tile_size, stride,
                                                  average_weight, sum_weight, min_pixels))
                /\ full_segmentation_mask' = Some(Zeros(h, w))
                /\ full_score_map' = Some([Zeros(h, w) EXCEPT
                                            !.px = [p \in Pixels(h, w) |-> ZeroScore]])
                /\ total_cells_before' = Some(TotalCellsBefore(conf))
                /\ idx' = 0
                /\ pc' = "recombine"
                /\ err' = "none"
    /\ UNCHANGED <<coordVars, cropped, results>>

\* one iteration of the recombination loop
RecombineStep ==
    /\ pc = "recombine"
    /\ idx < NumRecombine
    /\ LET tile == Val(confidence_segmentation_tiles)[idx + 1]
           pos == Val(positions)[idx + 1]
           index_coverage == Val(index_coverage_tiles)[idx + 1]
           mask == Val(full_segmentation_mask)
           score_map == Val(full_score_map)
           overwrite(p) == Overwrite(tile, index_coverage, pos, score_map, p, tile_size)
       IN  /\ full_segmentation_mask' = Some([mask EXCEPT
                 !.px = [p \in Pixels(mask.h, mask.w) |->
                           IF overwrite(p) THEN MosaicLabel(tile, Local(pos, p))
                           ELSE mask.px[p]]])
           /\ full_score_map' = Some([score_map EXCEPT
                 !.px = [p \in Pixels(mask.h, mask.w) |->
                           IF overwrite(p)
                           THEN TileScore(tile, index_coverage, Local(pos, p))
                           ELSE score_map.px[p]]])
    /\ idx' = idx + 1
    /\ UNCHANGED <<coordVars, cropped, err, segmentation_tiles,
                   confidence_segmentation_tiles, full_overlap_mask,
                   index_coverage_tiles, total_cells_before, pc, results>>

\* the end of ingest_tile_segmentation: crop the mosaic and return it
IngestReturn ==
    /\ pc = "recombine"
    /\ idx = NumRecombine
    /\ LET mosaic == CropPadded(Val(full_segmentation_mask), Val(pad_top), Val(pad_bottom),
                                Val(pad_left), Val(pad_right))
       IN  /\ cropped' = Some(mosaic)
           /\ results' = Append(results, mosaic)
    /\ pc' = "idle"
    /\ UNCHANGED <<coordVars, err, segmentation_tiles, ingestLocals>>

\* a direct call of _calculate_high_confidence_tiles(segmentation_tiles)
ReduceCall ==
    /\ pc = "idle"
    /\ ~IsNone(segmentation_tiles)
    /\ ~IsNone(positions)
    /\ IsNone(confidence_segmentation_tiles)
    /\ LET conf == CalculateHighConfidenceTiles(Val(segmentation_tiles),
                                                Val(positions), tile_size)
       IN  /\ confidence_segmentation_tiles' = Some(conf)
           /\ segmentation_tiles' =
                  Some(SegmentationTilesAfter(Val(segmentation_tiles), conf))
    /\ err' = "none"
    /\ UNCHANGED <<coordVars, cropped, full_overlap_mask, index_coverage_tiles,
                   full_segmentation_mask, full_score_map, total_cells_before,
                   idx, pc, results>>

(* ------------------------ combine_continuous_tiles --------------------- *)
\* np.hanning(m) / np.hanning(m).max() in quarters, for the lengths at which
\* the window is rational; the 2-D window divided by its maximum is the outer
\* product of these.  For m = 2 the window is [0, 0] and the division by its
\* maximum gives NaN.
HannSizes == {1, 2, 3, 4, 5, 7}

HannQuarters(m) ==
    CASE m = 1 -> <<4>>
      [] m = 2 -> <<0, 0>>
      [] m = 3 -> <<0, 4, 0>>
      [] m = 4 -> <<0, 4, 4, 0>>
      [] m = 5 -> <<0, 2, 4, 2, 0>>
      [] m = 7 -> <<0, 1, 3, 4, 3, 1, 0>>

WindowIsNaN(m) == m = 2

\* window[q] in sixteenths
Window(m, q) == HannQuarters(m)[q[1] + 1] * HannQuarters(m)[q[2] + 1]

\* a value of the float rasters: a fraction <<num, den>>, NaN is <<0, 0>>
NaN == <<0, 0>>

\* sums, over the first k (tile, position) pairs, of tile * window and of
\* window at pixel p
RECURSIVE WeightedSum(_, _, _, _, _)
WeightedSum(ctiles, pos, k, p, ts) ==
    IF k = 0 THEN [value |-> 0, weight |-> 0, covered |-> FALSE]
    ELSE LET prev == WeightedSum(ctiles, pos, k - 1, p, ts)
         IN  IF InRegion(pos[k], p, ts)
             THEN [value |-> prev.value + ctiles[k].px[Local(pos[k], p)]
                                            * Window(ts, Local(pos[k], p)),
                   weight |-> prev.weight + Window(ts, Local(pos[k], p)),
                   covered |-> TRUE]
             ELSE prev

\* reconstructed_image / weight_matrix, zero weights replaced by 1
Blend(ctiles, pos, h, w, ts) ==
    [h |-> h, w |-> w,
     px |-> [p \in Pixels(h, w) |->
        LET acc == WeightedSum(ctiles, pos, Min(Len(ctiles), Len(pos)), p, ts)
        IN  IF WindowIsNaN(ts) /\ acc.covered THEN NaN
            ELSE IF acc.weight = 0 THEN <<acc.value, 1>>
            ELSE <<acc.value, acc.weight>>]]

\* n tiles of a constant-value continuous image
ConstantTiles(n, c, ts) ==
    [k \in 1 .. n |-> [h |-> ts, w |-> ts, px |-> [q \in Pixels(ts, ts) |-> c]]]

CombineContinuousTiles(ctiles) ==
    /\ pc = "idle"
    /\ IF IsNone(image_padded)
       THEN /\ err' = "AttributeError"
            /\ UNCHANGED <<blended, cropped>>
       ELSE IF Len(ctiles) = 0
       THEN /\ err' = "IndexError"
            /\ UNCHANGED <<blended, cropped>>
       ELSE IF IsNone(positions)
       THEN /\ err' = "TypeError"
            /\ UNCHANGED <<blended, cropped>>
       ELSE LET out == CropPadded(Blend(ctiles, Val(positions), Val(image_padded).h,
                                        Val(image_padded).w, tile_size),
                                  Val(pad_top), Val(pad_bottom),
                                  Val(pad_left), Val(pad_right))
            IN  /\ err' = "none"
                /\ cropped' = Some(out)
                /\ blended' = Some(out)
    /\ UNCHANGED <<coordVars, ingestVars>>

\* label tiles handed to ingest_tile_segmentation whose number is not tied to
\* the number of extracted tiles
ReceiveSegmentation(n, P) ==
    /\ pc = "idle"
    /\ segmentation_tiles = None
    /\ \E f \in [1 .. n -> P] :
          segmentation_tiles' = Some([k \in 1 .. n |-> LabelTile(f[k], tile_size)])
    /\ err' = "none"
    /\ UNCHANGED <<coordVars, cropped, ingestLocals, pc, results>>

(* ----------------------- changes of configuration ---------------------- *)
\* coordinator.tile_size = ts: tile_size is a plain attribute
SetTileSize(ts) ==
    /\ pc = "idle"
    /\ tile_size' = ts
    /\ err' = "none"
    /\ UNCHANGED <<stride, average_weight, sum_weight, min_pixels,
                   image, image_padded, pad_top, pad_bottom, pad_left, pad_right,
                   tiles, positions, cropped, ingestVars>>

\* coordinator.stride = st
SetStride(st) ==
    /\ pc = "idle"
    /\ stride' = st
    /\ err' = "none"
    /\ UNCHANGED <<tile_size, average_weight, sum_weight, min_pixels,
                   image, image_padded, pad_top, pad_bottom, pad_left, pad_right,
                   tiles, positions, cropped, ingestVars>>

\* load_numpy_arrays on a coordinator that may already hold an image: only
\* self.image is assigned
ReloadNumpyArrays(h, w) ==
    /\ pc = "idle"
    /\ image' = Some(DistinctImage(h, w))
    /\ err' = "none"
    /\ UNCHANGED <<tile_size, stride, average_weight, sum_weight, min_pixels,
                   image_padded, pad_top, pad_bottom, pad_left, pad_right,
                   tiles, positions, cropped, ingestVars>>

(* ---------------------------- run_segmentation ------------------------- *)
\* mutant: the slice tiles[i:i+batch_size+1]
BatchOf_overlapping(i, bs, n) ==
    [j \in 1 .. (SliceIndex(i + bs + 1, n) - SliceIndex(i, n)) |-> i + j - 1]

\* the indices of tiles[i:i+batch_size] of n tiles
BatchOf(i, bs, n) ==
    [j \in 1 .. (SliceIndex(i + bs, n) - SliceIndex(i, n)) |-> i + j - 1]

\* labels by which the predictions of the predictor are told apart
PredictedLabels == {0, 1}

segFlowVars == <<coordVars, cropped, err, ingestVars, ctor_args, call, blended>>

imageVars == <<label_array, centroids_cache, checksum, returned>>

\* run_segmentation(tiles, segmentation_app, batch_size=bs) with n tiles
RunSegmentationCall(n, bs) ==
    /\ \/ batch_run = None
       \/ ~IsNone(batch_run) /\ Val(batch_run).pc = "done"
    /\ batch_run' = Some([n |-> n, batch_size |-> bs, i |-> 0, calls |-> <<>>,
                          segmentation_tiles |-> <<>>, pc |-> "loop"])
    /\ UNCHANGED <<segFlowVars, imageVars>>

\* one iteration of for i in range(0, len(tiles), batch_size): one call of
\* segmentation_app.predict, which returns one prediction for each tile
PredictBatch ==
    /\ ~IsNone(batch_run)
    /\ Val(batch_run).pc = "loop"
    /\ Val(batch_run).i < Val(batch_run).n
    /\ LET b == Val(batch_run)
           batch_tiles == BatchOf(b.i, b.batch_size, b.n)
       IN  \E f \in [1 .. Len(batch_tiles) -> PredictedLabels] :
              LET preds == [j \in 1 .. Len(batch_tiles) |->
                               [tile |-> batch_tiles[j], label |-> f[j]]]
              IN  batch_run' = Some([b EXCEPT
                      !.calls = Append(b.calls, batch_tiles),
                      !.segmentation_tiles = b.segmentation_tiles \o preds,
                      !.i = b.i + b.batch_size])
    /\ UNCHANGED <<segFlowVars, imageVars>>

\* return np.array(segmentation_tiles)
RunSegmentationReturn ==
    /\ ~IsNone(batch_run)
    /\ Val(batch_run).pc = "loop"
    /\ Val(batch_run).i >= Val(batch_run).n
    /\ batch_run' = Some([Val(batch_run) EXCEPT !.pc = "done"])
    /\ UNCHANGED <<segFlowVars, imageVars>>

(* --------------------------- SegmentationImage ------------------------- *)
\* shapes and labels of the label arrays considered
ImageShapes == {<<1, 3>>, <<2, 2>>}

ImageLabels == {0, 1, 2}

LabelArrays ==
    UNION {{[h |-> s[1], w |-> s[2], px |-> f] :
               f \in [Pixels(s[1], s[2]) -> ImageLabels]} : s \in ImageShapes}

\* hashlib.md5 of the contiguous bytes of the array: the values in row-major
\* order, without the shape (digests are equal iff these are equal)
CalculateChecksum(a) ==
    [k \in 1 .. a.h * a.w |-> a.px[<<(k - 1) \div a.w, (k - 1) % a.w>>]]

\* Python's round of num / den (ties go to the even integer), num, den >= 0
RoundHalfEven(num, den) ==
    LET q == num \div den
        rest == num % den
    IN  IF 2 * rest < den THEN q
        ELSE IF 2 * rest > den THEN q + 1
        ELSE IF q % 2 = 0 THEN q ELSE q + 1

\* the sum of coordinate c (1 = row, 2 = column) over a set of pixels
RECURSIVE SumCoordinate(_, _)
SumCoordinate(S, c) ==
    IF S = {} THEN 0
    ELSE LET p == CHOOSE q \in S : TRUE
         IN  p[c] + SumCoordinate(S \ {p}, c)

\* the dictionary built from regionprops(self): label -> rounded centroid
CentroidsOf(a) ==
    [l \in NonZeroLabels(a) |->
        LET region == {p \in Pixels(a.h, a.w) : a.px[p] = l}
        IN  <<RoundHalfEven(SumCoordinate(region, 1), Cardinality(region)),
              RoundHalfEven(SumCoordinate(region, 2), Cardinality(region))>>]

\* _calculate_centroids: the cache and checksum fields after the call
CalculateCentroids(a, cache, cs) ==
    LET current_checksum == CalculateChecksum(a)
    IN  IF ~IsNone(cache) /\ Some(current_checksum) = cs
        THEN [cache |-> cache, checksum |-> cs]
        ELSE [cache |-> Some(CentroidsOf(a)), checksum |-> Some(current_checksum)]

notImageVars == <<coordVars, cropped, err, ingestVars, ctor_args, blended, batch_run>>

\* the property centroids
ReadCentroids ==
    /\ ~IsNone(label_array)
    /\ IF IsNone(centroids_cache)
       THEN LET after == CalculateCentroids(Val(label_array), centroids_cache, checksum)
            IN  /\ centroids_cache' = after.cache
                /\ checksum' = after.checksum
                /\ returned' = after.cache
       ELSE /\ returned' = centroids_cache
            /\ UNCHANGED <<centroids_cache, checksum>>
    /\ call' = "centroids"
    /\ UNCHANGED <<label_array, notImageVars>>

\* image[p] = v: __setitem__ writes the pixel and invalidates the caches
SetItem(p, v) ==
    /\ ~IsNone(label_array)
    /\ p \in DOMAIN Val(label_array).px
    /\ label_array' = Some([Val(label_array) EXCEPT !.px[p] = v])
    /\ centroids_cache' = None
    /\ returned' = None
    /\ call' = "__setitem__"
    /\ UNCHANGED <<checksum, notImageVars>>

\* view = image[r0:r1, c0:c1]; view[q] = v, where the pixel written is pixel
\* p of the image: the view shares the pixels of the image, __setitem__ runs
\* on the view and invalidates the cache fields of the view object only
ViewSetItem(p, v) ==
    /\ ~IsNone(label_array)
    /\ p \in DOMAIN Val(label_array).px
    /\ label_array' = Some([Val(label_array) EXCEPT !.px[p] = v])
    /\ returned' = None
    /\ call' = "view.__setitem__"
    /\ UNCHANGED <<centroids_cache, checksum, notImageVars>>

\* mutant: the labels audited are 1 .. the largest label
AuditedLabels_up_to_max(a) ==
    IF NonZeroLabels(a) = {} THEN {0} ELSE 0 .. SetMax(NonZeroLabels(a))

\* labels = np.unique(self)
AuditedLabels(a) == {a.px[p] : p \in Pixels(a.h, a.w)}

\* the loop of has_missing_cells
HasMissingCells(a) ==
    \E label \in AuditedLabels(a) :
        /\ label # 0
        /\ Cardinality({p \in Pixels(a.h, a.w) : a.px[p] = label}) = 0

QueryMissingCells ==
    /\ ~IsNone(label_array)
    /\ returned' = Some(HasMissingCells(Val(label_array)))
    /\ call' = "has_missing_cells"
    /\ UNCHANGED <<label_array, centroids_cache, checksum, notImageVars>>

(* -------------------- specification: the pipeline ---------------------- *)
\* the configurations the pipeline is run on: <<tile_size, stride, height, width>>
Geometries == {<<3, 1, 1, 1>>, <<3, 2, 2, 2>>}

Init ==
    /\ \E g \in Geometries :
          /\ SegFlowInit(g[1], g[2])
    /\ cropped = None
    /\ err = "none"
    /\ NoIngest
    /\ NoAux

Next ==
    \/ \E g \in Geometries :
          /\ g[1] = tile_size /\ g[2] = stride
          /\ LoadNumpyArrays(g[3], g[4])
          /\ UNCHANGED auxVars
    \/ PadImage /\ UNCHANGED auxVars
    \/ ExtractTiles /\ UNCHANGED auxVars
    \/ RunSegmentation(Patterns) /\ UNCHANGED auxVars
    \/ IngestStart /\ UNCHANGED auxVars
    \/ RecombineStep /\ UNCHANGED auxVars
    \/ IngestReturn /\ UNCHANGED auxVars

Spec == Init /\ [][Next]_vars

(* --------------- specification: confidence reduction ------------------ *)
\* configurations with a non-zero margin (tile_size // 8 = 1) and 2 or 3 tiles
ReduceGeometries == {<<8, 3, 1, 2>>, <<8, 3, 1, 5>>}

InitReduce ==
    /\ \E g \in ReduceGeometries : SegFlowInit(g[1], g[2])
    /\ cropped = None
    /\ err = "none"
    /\ NoIngest
    /\ NoAux

NextReduce ==
    \/ \E g \in ReduceGeometries :
          /\ g[1] = tile_size /\ g[2] = stride
          /\ LoadNumpyArrays(g[3], g[4])
          /\ UNCHANGED auxVars
    \/ PadImage /\ UNCHANGED auxVars
    \/ ExtractTiles /\ UNCHANGED auxVars
    \/ RunSegmentation(ReducePatterns) /\ UNCHANGED auxVars
    \/ ReduceCall /\ UNCHANGED auxVars

SpecReduce == InitReduce /\ [][NextReduce]_vars

(* ------------- specification: constructor arguments -------------------- *)
\* SegFlow(tile_size, stride, average_weight, sum_weight, min_pixels) with
\* weights (in tenths) and thresholds chosen by the caller, then the pipeline
CtorWeights == {3, 7}
CtorMinPixels == {4, 5}

WeightPatterns == PatternsOf({"small"}, {"full"})

InitWeights ==
    /\ SegFlowInit(3, 2)
    /\ \E aw \in CtorWeights, sw \in CtorWeights, mp \in CtorMinPixels :
          ctor_args = [average_weight |-> aw, sum_weight |-> sw, min_pixels |-> mp]
    /\ call = "none"
    /\ blended = None
    /\ NoObjects
    /\ cropped = None
    /\ err = "none"
    /\ NoIngest

NextWeights ==
    \/ LoadNumpyArrays(2, 2) /\ UNCHANGED auxVars
    \/ PadImage /\ UNCHANGED auxVars
    \/ ExtractTiles /\ UNCHANGED auxVars
    \/ RunSegmentation(WeightPatterns) /\ UNCHANGED auxVars
    \/ IngestStart /\ UNCHANGED auxVars
    \/ RecombineStep /\ UNCHANGED auxVars
    \/ IngestReturn /\ UNCHANGED auxVars

SpecWeights == InitWeights /\ [][NextWeights]_vars

(* ---------------- specification: calls in any order -------------------- *)
\* every operation of the coordinator, called in any order from construction;
\* the call variable records the operation invoked last
CallPatterns == PatternsOf({"full"}, {})

InitCalls ==
    /\ SegFlowInit(3, 2)
    /\ cropped = None
    /\ err = "none"
    /\ NoIngest
    /\ NoAux

NextCalls ==
    \/ LoadNumpyArrays(2, 2) /\ call' = "load_numpy_arrays" /\ UNCHANGED <<ctor_args, blended, objVars>>
    \/ PadImage /\ call' = "pad_image" /\ UNCHANGED <<ctor_args, blended, objVars>>
    \/ ExtractTiles /\ call' = "extract_tiles" /\ UNCHANGED <<ctor_args, blended, objVars>>
    \/ CropImagePadded /\ call' = "_crop_padded" /\ UNCHANGED <<ctor_args, blended, objVars>>
    \/ \E n \in 1 .. MaxReceived :
          /\ CombineContinuousTiles(ConstantTiles(n, 1, tile_size))
          /\ call' = "combine_continuous_tiles"
          /\ UNCHANGED <<ctor_args, objVars>>
    \/ \E n \in 1 .. MaxReceived :
          /\ ReceiveSegmentation(n, CallPatterns)
          /\ call' = "run_segmentation"
          /\ UNCHANGED <<ctor_args, blended, objVars>>
    \/ IngestStart /\ call' = "ingest_tile_segmentation" /\ UNCHANGED <<ctor_args, blended, objVars>>
    \/ RecombineStep /\ call' = "ingest_tile_segmentation" /\ UNCHANGED <<ctor_args, blended, objVars>>
    \/ IngestReturn /\ call' = "ingest_tile_segmentation" /\ UNCHANGED <<ctor_args, blended, objVars>>

SpecCalls == InitCalls /\ [][NextCalls]_vars

(* --------------- specification: reconfiguration ------------------------ *)
\* one coordinator whose tile_size, stride and image are changed between
\* calls of pad_image and extract_tiles
ReconfigTileSizes == {2, 3}

ReconfigStrides == {1, 2}

ReconfigImages == {<<2, 2>>, <<3, 2>>}

InitReconfig ==
    /\ \E ts \in ReconfigTileSizes, st \in ReconfigStrides : SegFlowInit(ts, st)
    /\ cropped = None
    /\ err = "none"
    /\ NoIngest
    /\ NoAux

NextReconfig ==
    \/ \E ts \in ReconfigTileSizes :
          SetTileSize(ts) /\ call' = "set_tile_size" /\ UNCHANGED <<ctor_args, blended, objVars>>
    \/ \E st \in ReconfigStrides :
          SetStride(st) /\ call' = "set_stride" /\ UNCHANGED <<ctor_args, blended, objVars>>
    \/ \E s \in ReconfigImages :
          /\ ReloadNumpyArrays(s[1], s[2])
          /\ call' = "load_numpy_arrays"
          /\ UNCHANGED <<ctor_args, blended, objVars>>
    \/ PadImage /\ call' = "pad_image" /\ UNCHANGED <<ctor_args, blended, objVars>>
    \/ ExtractTiles /\ call' = "extract_tiles" /\ UNCHANGED <<ctor_args, blended, objVars>>

SpecReconfig == InitReconfig /\ [][NextReconfig]_vars

(* ------------------ specification: window blending --------------------- *)
\* a constant-value continuous image tiled with overlapping tiles
\* (stride < tile_size), its tiles handed back to combine_continuous_tiles
BlendGeometries == {<<2, 1>>, <<3, 2>>, <<4, 2>>, <<5, 4>>}

BlendConstants == {1, 2}

InitBlend ==
    /\ \E g \in BlendGeometries : SegFlowInit(g[1], g[2])
    /\ cropped = None
    /\ err = "none"
    /\ NoIngest
    /\ NoAux

NextBlend ==
    \/ \E h \in 1 .. MaxImageSize, w \in 1 .. MaxImageSize :
          LoadNumpyArrays(h, w) /\ UNCHANGED auxVars
    \/ PadImage /\ UNCHANGED auxVars
    \/ ExtractTiles /\ UNCHANGED auxVars
    \/ \E c \in BlendConstants :
          /\ ~IsNone(tiles)
          /\ CombineContinuousTiles(ConstantTiles(Len(Val(tiles)), c, tile_size))
          /\ UNCHANGED <<ctor_args, call, objVars>>

SpecBlend == InitBlend /\ [][NextBlend]_vars

(* ------------------ specification: coordinator reuse ------------------- *)
\* the pipeline on a coordinator that is given a second, wider image after
\* the first one: load_numpy_arrays, pad_image, extract_tiles, prediction and
\* ingest_tile_segmentation in any order the methods allow
ReusePatterns == PatternsOf({"rows"}, {})

InitReuse ==
    /\ SegFlowInit(3, 2)
    /\ cropped = None
    /\ err = "none"
    /\ NoIngest
    /\ NoAux

NextReuse ==
    \/ LoadNumpyArrays(2, 2) /\ UNCHANGED auxVars
    \/ ReloadNumpyArrays(2, 4) /\ UNCHANGED auxVars
    \/ PadImage /\ UNCHANGED auxVars
    \/ ExtractTiles /\ UNCHANGED auxVars
    \/ RunSegmentation(ReusePatterns) /\ UNCHANGED auxVars
    \/ IngestStart /\ UNCHANGED auxVars
    \/ RecombineStep /\ UNCHANGED auxVars
    \/ IngestReturn /\ UNCHANGED auxVars

SpecReuse == InitReuse /\ [][NextReuse]_vars

(* --------------------- specification: batching ------------------------- *)
\* calls of run_segmentation with any number of tiles and any batch size
InitBatch ==
    /\ SegFlowInit(DefaultTileSize, DefaultStride)
    /\ cropped = None
    /\ err = "none"
    /\ NoIngest
    /\ NoAux

NextBatch ==
    \/ \E n \in 0 .. MaxBatchTiles, bs \in 1 .. MaxBatchSize : RunSegmentationCall(n, bs)
    \/ PredictBatch
    \/ RunSegmentationReturn

SpecBatch == InitBatch /\ [][NextBatch]_vars

(* ------------------ specification: SegmentationImage ------------------- *)
\* one SegmentationImage built from any label array, then property reads,
\* pixel writes on the image and through a slice view, and the audit query
InitImage ==
    /\ SegFlowInit(DefaultTileSize, DefaultStride)
    /\ cropped = None
    /\ err = "none"
    /\ NoIngest
    /\ ctor_args = DefaultArgs
    /\ call = "none"
    /\ blended = None
    /\ batch_run = None
    /\ \E a \in LabelArrays :
          /\ label_array = Some(a)
          /\ checksum = Some(CalculateChecksum(a))
    /\ centroids_cache = None
    /\ returned = None

NextImage ==
    \/ ReadCentroids
    \/ \E s \in ImageShapes, v \in ImageLabels :
          \E p \in Pixels(s[1], s[2]) : SetItem(p, v)
    \/ \E s \in ImageShapes, v \in ImageLabels :
          \E p \in Pixels(s[1], s[2]) : ViewSetItem(p, v)
    \/ QueryMissingCells

SpecImage == InitImage /\ [][NextImage]_vars

(* ---------------------- specification: tiling -------------------------- *)
InitTiling ==
    /\ \E ts \in 1 .. MaxTileSize, st \in 1 .. MaxStride : SegFlowInit(ts, st)
    /\ cropped = None
    /\ err = "none"
    /\ NoIngest
    /\ NoAux

NextTiling ==
    \/ \E h \in 1 .. MaxImageSize, w \in 1 .. MaxImageSize :
          LoadNumpyArrays(h, w) /\ UNCHANGED auxVars
    \/ PadImage /\ UNCHANGED auxVars
    \/ ExtractTiles /\ UNCHANGED auxVars
    \/ CropImagePadded /\ UNCHANGED auxVars

SpecTiling == InitTiling /\ [][NextTiling]_vars

(* ----------------------- specification: crop --------------------------- *)
\* _crop_padded as a function of its inputs: any raster and any pad amounts
\* that fit in it (pad fields are plain attributes of the coordinator).
InitCrop ==
    /\ \E h \in 1 .. MaxCropSize, w \in 1 .. MaxCropSize,
          top \in 0 .. MaxPad, bottom \in 0 .. MaxPad,
          left \in 0 .. MaxPad, right \in 0 .. MaxPad :
            /\ top + bottom <= h
            /\ left + right <= w
            /\ image_padded = Some(DistinctImage(h, w))
            /\ pad_top = Some(top)
            /\ pad_bottom = Some(bottom)
            /\ pad_left = Some(left)
            /\ pad_right = Some(right)
    /\ tile_size = DefaultTileSize
    /\ stride = DefaultStride
    /\ average_weight = 7
    /\ sum_weight = 3
    /\ min_pixels = 5
    /\ image = None
    /\ tiles = None
    /\ positions = None
    /\ cropped = None
    /\ err = "none"
    /\ NoIngest
    /\ NoAux

NextCrop == CropImagePadded /\ UNCHANGED auxVars

SpecCrop == InitCrop /\ [][NextCrop]_vars

(* ------------------------------ claims --------------------------------- *)
Padded == ~IsNone(image) /\ ~IsNone(image_padded)

\* C1 (as claimed): after pad_image, (pad_before + pad_after + S - tile_size)
\* mod stride = 0 for the height and for the width.
C1_PadInvariant ==
    Padded =>
        /\ (Val(pad_top) + Val(pad_bottom) + Val(image).h - tile_size) % stride = 0
        /\ (Val(pad_left) + Val(pad_right) + Val(image).w - tile_size) % stride = 0

\* the tile at position pos covers pixel p
Covers(pos, p) ==
    /\ pos[1] <= p[1] /\ p[1] < pos[1] + tile_size
    /\ pos[2] <= p[2] /\ p[2] < pos[2] + tile_size

\* C2 (as claimed): after pad_image and extract_tiles every padded pixel lies
\* in at least one tile region.
C2_Coverage ==
    (Padded /\ ~IsNone(positions)) =>
        \A p \in Pixels(Val(image_padded).h, Val(image_padded).w) :
            \E k \in 1 .. Len(Val(positions)) : Covers(Val(positions)[k], p)

\* C8 (as claimed): for any raster and pad amounts >= 0 the crop is exactly
\* rows [pad_top, H - pad_bottom) and columns [pad_left, W - pad_right).
C8_CropExact ==
    (~IsNone(cropped) /\ err = "none") =>
        Val(cropped) = Slice(Val(image_padded),
                             Val(pad_top), Val(image_padded).h - Val(pad_bottom),
                             Val(pad_left), Val(image_padded).w - Val(pad_right))

\* C9: cropping the padded image by the pad amounts recorded by pad_image
\* gives back the original image, pixel for pixel and with its shape.
C9_RoundTrip ==
    (Padded /\ ~IsNone(cropped) /\ err = "none") => Val(cropped) = Val(image)

\* C9 witness: a padded image of more than one row and column, with unequal
\* pad amounts on both axes, has been cropped.
C9_Witness ==
    /\ Padded /\ ~IsNone(cropped) /\ err = "none"
    /\ Val(image).h > 1 /\ Val(image).w > 1
    /\ Val(pad_top) # Val(pad_bottom) /\ Val(pad_left) # Val(pad_right)

(* --------------- claims on reduction and recombination ----------------- *)
\* C3: after confidence reduction no non-zero id occurs in two different
\* confidence tiles.
C3_LabelUniqueness ==
    ~IsNone(confidence_segmentation_tiles) =>
        LET conf == Val(confidence_segmentation_tiles)
        IN  \A i \in 1 .. Len(conf), j \in 1 .. Len(conf) :
                i < j => NonZeroLabels(conf[i]) \cap NonZeroLabels(conf[j]) = {}

\* C3 witness: a reduction in which two input tiles carried a common id, a
\* later tile kept an instance and some tile lost an instance to the margin.
C3_Witness ==
    /\ ~IsNone(confidence_segmentation_tiles)
    /\ LET conf == Val(confidence_segmentation_tiles)
           seg == Val(segmentation_tiles)
       IN  /\ \E i \in 1 .. Len(conf), j \in 1 .. Len(conf) :
                 /\ i < j
                 /\ NonZeroLabels(seg[i]) \cap NonZeroLabels(seg[j]) # {}
                 /\ NonZeroLabels(conf[i]) # {}
                 /\ NonZeroLabels(conf[j]) # {}
           /\ \E k \in 1 .. Len(conf) :
                 Cardinality(NonZeroLabels(conf[k])) < Cardinality(NonZeroLabels(seg[k]))

RecombineStarted ==
    /\ ~IsNone(confidence_segmentation_tiles)
    /\ ~IsNone(index_coverage_tiles)
    /\ ~IsNone(full_segmentation_mask)
    /\ ~IsNone(full_score_map)

LoopDone == RecombineStarted /\ idx = NumRecombine

\* tile k has a non-background label at pixel p of the whole raster
Claims(k, p) ==
    /\ InRegion(Val(positions)[k], p, tile_size)
    /\ Val(confidence_segmentation_tiles)[k].px[Local(Val(positions)[k], p)] > 0

LabelAt(k, p) == Val(confidence_segmentation_tiles)[k].px[Local(Val(positions)[k], p)]

ScoreAt(k, p) ==
    TileScore(Val(confidence_segmentation_tiles)[k], Val(index_coverage_tiles)[k],
              Local(Val(positions)[k], p))

Scored(k, p) == Claims(k, p) /\ LabelAt(k, p) \in DOMAIN Val(index_coverage_tiles)[k]

SameScore(a, b) == a[1] * b[2] = b[1] * a[2]

HigherScore(a, b) == a[1] * b[2] > b[1] * a[2]

MosaicPixels == Pixels(Val(full_segmentation_mask).h, Val(full_segmentation_mask).w)

\* C4: when two tiles claim a pixel with exactly equal scores, the later of
\* the two does not hold the pixel once it has been processed: the earlier
\* tile's claim is never overwritten on a tie.
C4_TieEarlierKeeps ==
    RecombineStarted =>
        \A p \in MosaicPixels : \A i \in 1 .. idx, j \in 1 .. idx :
            (i < j /\ Claims(i, p) /\ Claims(j, p) /\ SameScore(ScoreAt(i, p), ScoreAt(j, p)))
                => Val(full_segmentation_mask).px[p] # LabelAt(j, p)

\* C4 witness: the loop has finished and, at some pixel, two scored tiles tie
\* and the mosaic holds the label of the earlier one.
C4_Witness ==
    /\ LoopDone
    /\ \E p \in MosaicPixels : \E i \in 1 .. idx, j \in 1 .. idx :
          /\ i < j /\ Scored(i, p) /\ Scored(j, p)
          /\ SameScore(ScoreAt(i, p), ScoreAt(j, p))
          /\ Val(full_segmentation_mask).px[p] = LabelAt(i, p)

\* a step of the recombination loop in which the tile being processed ties, at
\* pixel p, with the score the mosaic already holds for another tile's label
TieAt(p) ==
    /\ pc = "recombine"
    /\ RecombineStarted
    /\ idx < NumRecombine
    /\ Scored(idx + 1, p)
    /\ Val(full_segmentation_mask).px[p] # 0
    /\ SameScore(ScoreAt(idx + 1, p), Val(full_score_map).px[p])

PaddedPixels ==
    IF IsNone(image_padded) THEN {}
    ELSE Pixels(Val(image_padded).h, Val(image_padded).w)

\* C5 (as claimed): on a score tie the later tile overwrites the earlier
\* tile's label in the mosaic.
C5_LaterOverwritesOnTie ==
    [][\A p \in PaddedPixels :
          (TieAt(p) /\ idx' = idx + 1)
              => Val(full_segmentation_mask').px[p] = LabelAt(idx + 1, p)]_vars

\* C5 (amended): on a score tie the later tile does not overwrite: the step
\* leaves the label and the score of the pixel as the earlier tile set them.
C5_TieKeepsEarlier ==
    [][\A p \in PaddedPixels :
          (TieAt(p) /\ idx' = idx + 1)
              => /\ Val(full_segmentation_mask').px[p] = Val(full_segmentation_mask).px[p]
                 /\ Val(full_score_map').px[p] = Val(full_score_map).px[p]]_vars

\* C5 witness: the loop is about to process a tile that ties with the mosaic
\* at some pixel.
C5_Witness == \E p \in PaddedPixels : TieAt(p)

\* the order-independent reduction over the first k tiles: the label of the
\* scored claimant of maximum score, the smallest tile index on ties, else 0
Claimants(p, k) == {j \in 1 .. k : Scored(j, p)}

Winner(p, k) ==
    IF Claimants(p, k) = {} THEN 0
    ELSE LET best == {j \in Claimants(p, k) :
                         \A i \in Claimants(p, k) : ~HigherScore(ScoreAt(i, p), ScoreAt(j, p))}
             first == CHOOSE j \in best : \A i \in best : j <= i
         IN  LabelAt(first, p)

PixelCount(k, l) ==
    Cardinality({q \in Pixels(tile_size, tile_size) :
                    Val(confidence_segmentation_tiles)[k].px[q] = l})

\* C7: an instance with fewer than min_pixels pixels in its tile has no
\* coverage-score entry and its id is at no pixel of the mosaic.
C7_ThresholdExclusion ==
    RecombineStarted =>
        \A k \in 1 .. Len(Val(confidence_segmentation_tiles)) :
            \A l \in NonZeroLabels(Val(confidence_segmentation_tiles)[k]) :
                PixelCount(k, l) < min_pixels =>
                    /\ l \notin DOMAIN Val(index_coverage_tiles)[k]
                    /\ \A p \in MosaicPixels : Val(full_segmentation_mask).px[p] # l

\* C7 witness: the loop has finished; an instance of exactly min_pixels - 1
\* pixels has a pixel that no scored instance claims and that another
\* unscored instance claims too, and the mosaic is 0 there.
C7_Witness ==
    /\ LoopDone
    /\ \E k \in 1 .. idx, j \in 1 .. idx : \E p \in MosaicPixels :
          /\ k # j
          /\ Claims(k, p) /\ PixelCount(k, LabelAt(k, p)) = min_pixels - 1
          /\ Claims(j, p) /\ ~Scored(j, p)
          /\ Claimants(p, idx) = {}
          /\ Val(full_segmentation_mask).px[p] = 0

\* C10: a call of ingest_tile_segmentation leaves the input tiles, the
\* positions, the pad amounts and the padded image unchanged, and every call
\* on the same coordinator with the same tiles returns the same mosaic.
C10_Deterministic ==
    [][(pc = "recombine" \/ pc' = "recombine") =>
          /\ UNCHANGED <<segmentation_tiles, positions, pad_top, pad_bottom,
                         pad_left, pad_right, image_padded>>
          /\ \A i \in 1 .. Len(results'), j \in 1 .. Len(results') :
                results'[i] = results'[j]]_vars

\* C10 witness: two calls have returned, the mosaic has an instance in it and
\* the reduction shifted the ids of some tile.
C10_Witness ==
    /\ Len(results) >= 2
    /\ \E p \in Pixels(results[2].h, results[2].w) : results[2].px[p] # 0
    /\ \E k \in 1 .. Len(Val(segmentation_tiles)) :
          /\ NonZeroLabels(Val(confidence_segmentation_tiles)[k]) # {}
          /\ Val(confidence_segmentation_tiles)[k] # Val(segmentation_tiles)[k]

(* ------------------- claims on the overlap density map ----------------- *)
\* C11: the overlap density map holds, at every padded pixel, the number of
\* confidence tiles with a non-background label at that pixel.
C11_DensityCounts ==
    (~IsNone(full_overlap_mask) /\ ~IsNone(confidence_segmentation_tiles)) =>
        \A p \in Pixels(Val(full_overlap_mask).h, Val(full_overlap_mask).w) :
            Val(full_overlap_mask).px[p] =
                Cardinality({k \in 1 .. Len(Val(confidence_segmentation_tiles)) : Claims(k, p)})

\* C11 witness: a density map with a pixel claimed by two tiles, a pixel
\* claimed by one and a pixel claimed by none.
C11_Witness ==
    /\ ~IsNone(full_overlap_mask)
    /\ \E p \in Pixels(Val(full_overlap_mask).h, Val(full_overlap_mask).w) :
          Val(full_overlap_mask).px[p] >= 2
    /\ \E p \in Pixels(Val(full_overlap_mask).h, Val(full_overlap_mask).w) :
          Val(full_overlap_mask).px[p] = 1
    /\ \E p \in Pixels(Val(full_overlap_mask).h, Val(full_overlap_mask).w) :
          Val(full_overlap_mask).px[p] = 0

(* ------------------ claims on the constructor arguments ---------------- *)
\* C12 (as claimed): the coverage scores are those computed with the weights
\* and the minimum-pixel threshold the caller passed to the constructor.
C12_CallerWeightsUsed ==
    (~IsNone(index_coverage_tiles) /\ ~IsNone(full_overlap_mask)) =>
        Val(index_coverage_tiles) =
            CalculateTileOverlaps(Val(full_overlap_mask), Val(confidence_segmentation_tiles),
                                  tile_size, stride, ctor_args.average_weight,
                                  ctor_args.sum_weight, ctor_args.min_pixels)

\* C13: ingest_tile_segmentation called while no tile positions are recorded
\* ends in the precondition error (ValueError), returns no mosaic and leaves
\* every field of the coordinator as it was.
C13_IngestNeedsPositions ==
    [][(call' = "ingest_tile_segmentation" /\ pc = "idle" /\ IsNone(positions))
          => /\ err' = "ValueError"
             /\ results' = results
             /\ pc' = "idle"
             /\ UNCHANGED <<coordVars, cropped, segmentation_tiles, ingestLocals>>]_vars

C13_Witness ==
    /\ call = "ingest_tile_segmentation"
    /\ ~IsNone(segmentation_tiles)
    /\ IsNone(positions)
    /\ err = "ValueError"
    /\ results = <<>>

\* C14 (as claimed): an operation called while the state it requires is
\* missing ends in an error: pad_image without an image, extract_tiles
\* without a padded image, combine_continuous_tiles without a padded image or
\* positions, the crop without a padded image.
C14_MissingStateIsError ==
    /\ (call = "pad_image" /\ IsNone(image)) => err # "none"
    /\ (call = "extract_tiles" /\ IsNone(image_padded)) => err # "none"
    /\ (call = "combine_continuous_tiles" /\ (IsNone(image_padded) \/ IsNone(positions)))
          => err # "none"
    /\ (call = "_crop_padded" /\ IsNone(image_padded)) => err # "none"

\* C15 (as claimed): a mosaic is returned only when the number of label tiles
\* equals the number of recorded positions.
C15_NoPartialMosaic ==
    results # <<>> => Len(Val(segmentation_tiles)) = Len(Val(positions))

\* C16 (as claimed): after any sequence of changes of tile_size, stride or
\* image, pad_image and extract_tiles, the tiles and positions that
\* extract_tiles returns are those of the current padded image under the
\* current tile_size and stride.
C16_TilingIsCurrent ==
    (call = "extract_tiles" /\ err = "none") =>
        /\ positions = Some(ExtractPositions(Val(image_padded).h, Val(image_padded).w,
                                             tile_size, stride))
        /\ tiles = Some(ExtractTilesOf(Val(image_padded), tile_size, stride))

\* C17 (as claimed): for a constant-value continuous image stitched from
\* overlapping tiles, every pixel of the cropped output of
\* combine_continuous_tiles equals the constant.
C17_ConstantReconstructed ==
    (~IsNone(blended) /\ stride < tile_size) =>
        \E c \in BlendConstants :
            \A p \in Pixels(Val(blended).h, Val(blended).w) :
                /\ Val(blended).px[p][2] # 0
                /\ Val(blended).px[p][1] = c * Val(blended).px[p][2]

\* the pixels of tile k that the predictor gave the id l
InstancePixels(k, l) ==
    {p \in Pixels(tile_size, tile_size) : Val(segmentation_tiles)[k].px[p] = l}

\* p lies in [tile_size // 8, tile_size - tile_size // 8) on both axes
InCentre(p) ==
    /\ tile_size \div 8 <= p[1] /\ p[1] < tile_size - tile_size \div 8
    /\ tile_size \div 8 <= p[2] /\ p[2] < tile_size - tile_size \div 8

TouchesCentre(k, l) == \E p \in InstancePixels(k, l) : InCentre(p)

\* C18: confidence reduction keeps an instance iff one of its pixels lies in
\* the central region; a kept instance keeps exactly its pixels under one new
\* non-zero id, every pixel of a dropped instance becomes 0.
C18_CentreDecides ==
    ~IsNone(confidence_segmentation_tiles) =>
        \A k \in 1 .. Len(Val(confidence_segmentation_tiles)) :
            LET out == Val(confidence_segmentation_tiles)[k]
            IN  \A l \in NonZeroLabels(Val(segmentation_tiles)[k]) :
                    IF TouchesCentre(k, l)
                    THEN \E id \in NonZeroLabels(out) :
                            {p \in Pixels(tile_size, tile_size) : out.px[p] = id}
                                = InstancePixels(k, l)
                    ELSE \A p \in InstancePixels(k, l) : out.px[p] = 0

\* C18 witness: a tile with a margin in which one instance is kept together
\* with its pixels outside the centre and another one is dropped
C18_Witness ==
    /\ ~IsNone(confidence_segmentation_tiles)
    /\ tile_size \div 8 > 0
    /\ \E k \in 1 .. Len(Val(confidence_segmentation_tiles)) :
          /\ \E l \in NonZeroLabels(Val(segmentation_tiles)[k]) :
                /\ TouchesCentre(k, l)
                /\ \E p \in InstancePixels(k, l) :
                      /\ ~InCentre(p)
                      /\ Val(confidence_segmentation_tiles)[k].px[p] # 0
          /\ \E l \in NonZeroLabels(Val(segmentation_tiles)[k]) :
                /\ ~TouchesCentre(k, l)
                /\ \A p \in InstancePixels(k, l) :
                      Val(confidence_segmentation_tiles)[k].px[p] = 0

\* the largest id issued to the first k confidence tiles, 0 if there is none
IssuedMax(k) ==
    LET S == UNION {NonZeroLabels(Val(confidence_segmentation_tiles)[i]) : i \in 1 .. k}
    IN  IF S = {} THEN 0 ELSE CHOOSE x \in S : \A y \in S : y <= x

\* C19: the offset added to the ids of a tile is the largest id issued to the
\* tiles before it (so it never decreases and a tile without a surviving
\* instance leaves it as it was), and every id issued to a later tile is
\* greater than every id issued to an earlier tile.
C19_MonotonicOffset ==
    ~IsNone(confidence_segmentation_tiles) =>
        \A k \in 1 .. Len(Val(confidence_segmentation_tiles)) :
            /\ \A p \in Pixels(tile_size, tile_size) :
                  Val(confidence_segmentation_tiles)[k].px[p] # 0 =>
                      Val(confidence_segmentation_tiles)[k].px[p]
                          = Val(segmentation_tiles)[k].px[p] + IssuedMax(k - 1)
            /\ \A i \in 1 .. k - 1 :
                  \A a \in NonZeroLabels(Val(confidence_segmentation_tiles)[i]),
                     b \in NonZeroLabels(Val(confidence_segmentation_tiles)[k]) : a < b

\* C19 witness: a tile with survivors, then a tile whose instances were all
\* dropped, then a tile with survivors
C19_Witness ==
    /\ ~IsNone(confidence_segmentation_tiles)
    /\ \E i, j, k \in 1 .. Len(Val(confidence_segmentation_tiles)) :
          /\ i < j /\ j < k
          /\ NonZeroLabels(Val(confidence_segmentation_tiles)[i]) # {}
          /\ NonZeroLabels(Val(segmentation_tiles)[j]) # {}
          /\ NonZeroLabels(Val(confidence_segmentation_tiles)[j]) = {}
          /\ NonZeroLabels(Val(confidence_segmentation_tiles)[k]) # {}

\* C20 (as claimed): the positions are, in row-major order, exactly the pairs
\* (i * stride, j * stride) whose tile fits in the padded image; after
\* pad_image the last tile of each row and column ends at the padded edge;
\* no tile is produced when tile_size exceeds a dimension.
C20_TilePositions ==
    (Padded /\ ~IsNone(positions)) =>
        LET H == Val(image_padded).h
            W == Val(image_padded).w
            pos == Val(positions)
        IN  /\ {pos[k] : k \in 1 .. Len(pos)}
                  = {<<i * stride, j * stride>> : i \in {a \in 0 .. H : a * stride + tile_size <= H},
                                                  j \in {b \in 0 .. W : b * stride + tile_size <= W}}
            /\ \A a \in 1 .. Len(pos), b \in 1 .. Len(pos) :
                  a < b => \/ pos[a][1] < pos[b][1]
                           \/ pos[a][1] = pos[b][1] /\ pos[a][2] < pos[b][2]
            /\ \A k \in 1 .. Len(pos) :
                  /\ 0 <= pos[k][1] /\ pos[k][1] + tile_size <= H
                  /\ 0 <= pos[k][2] /\ pos[k][2] + tile_size <= W
            /\ pos # <<>> => /\ pos[Len(pos)][1] + tile_size = H
                             /\ pos[Len(pos)][2] + tile_size = W
            /\ (tile_size > H \/ tile_size > W) => pos = <<>>

\* the non-zero ids of all confidence tiles
ConfidenceIds ==
    UNION {NonZeroLabels(Val(confidence_segmentation_tiles)[k]) :
              k \in 1 .. Len(Val(confidence_segmentation_tiles))}

\* C21: every non-zero id of the mosaic, during and after recombination, is
\* an id of a confidence tile, so the mosaic never has more instances than
\* the confidence tiles.
C21_NoNewIds ==
    RecombineStarted =>
        /\ NonZeroLabels(Val(full_segmentation_mask)) \subseteq ConfidenceIds
        /\ Cardinality(NonZeroLabels(Val(full_segmentation_mask)))
              <= Cardinality(ConfidenceIds)
        /\ \A i \in 1 .. Len(results) : NonZeroLabels(results[i]) \subseteq ConfidenceIds

\* C21 witness: a finished recombination whose mosaic holds some but not all
\* of the ids of the confidence tiles
C21_Witness ==
    /\ LoopDone
    /\ results # <<>>
    /\ NonZeroLabels(Val(full_segmentation_mask)) # {}
    /\ NonZeroLabels(Val(full_segmentation_mask)) # ConfidenceIds

\* C24 (as claimed): the counter of cells before recombination equals the
\* number of distinct non-zero ids over all confidence tiles, for every input.
C24_CellsBeforeCounts ==
    (~IsNone(total_cells_before) /\ ~IsNone(confidence_segmentation_tiles)) =>
        Val(total_cells_before) = Cardinality(ConfidenceIds)

\* the score raster holds a score strictly greater than 0 at p
PositiveScoreAt(p) == HigherScore(Val(full_score_map).px[p], <<0, 1>>)

\* C25: after every tile step the label raster and the score raster agree on
\* the claimed pixels: the label is non-zero iff the score is greater than 0.
C25_LabelIffScore ==
    RecombineStarted =>
        \A p \in MosaicPixels :
            Val(full_segmentation_mask).px[p] # 0 <=> PositiveScoreAt(p)

\* C25 witness: after a step a pixel is claimed, and another pixel is still
\* unclaimed although a processed tile has a label there
C25_Witness ==
    /\ RecombineStarted
    /\ idx >= 1
    /\ \E p \in MosaicPixels : Val(full_segmentation_mask).px[p] # 0
    /\ \E q \in MosaicPixels :
          /\ Val(full_segmentation_mask).px[q] = 0
          /\ \E k \in 1 .. idx : Claims(k, q)

\* C26: at a tile step no score decreases, no claimed pixel becomes
\* unclaimed, a label changes only where the score strictly increases, and
\* the pixels outside the region of the tile processed stay as they are.
C26_ScoresOnlyGrow ==
    [][(pc = "recombine" /\ idx' = idx + 1) =>
          \A p \in PaddedPixels :
              LET label == Val(full_segmentation_mask).px[p]
                  labelAfter == Val(full_segmentation_mask').px[p]
                  score == Val(full_score_map).px[p]
                  scoreAfter == Val(full_score_map').px[p]
              IN  /\ ~HigherScore(score, scoreAfter)
                  /\ label # 0 => labelAfter # 0
                  /\ labelAfter # label => HigherScore(scoreAfter, score)
                  /\ ~InRegion(Val(positions)[idx + 1], p, tile_size)
                        => (labelAfter = label /\ scoreAfter = score)]_vars

\* C26 witness: a pixel that an earlier tile claimed now holds the label of a
\* later tile with a strictly higher score
C26_Witness ==
    /\ RecombineStarted
    /\ \E p \in MosaicPixels : \E i \in 1 .. idx, j \in 1 .. idx :
          /\ i < j
          /\ Scored(i, p) /\ Scored(j, p)
          /\ HigherScore(ScoreAt(j, p), ScoreAt(i, p))
          /\ Val(full_segmentation_mask).px[p] = LabelAt(j, p)
          /\ SameScore(Val(full_score_map).px[p], ScoreAt(j, p))

\* the pixels of the whole raster at which confidence tile k, placed at its
\* recorded position, holds the id l
Footprint(k, l) ==
    {p \in MosaicPixels : InRegion(Val(positions)[k], p, tile_size) /\ LabelAt(k, p) = l}

\* w_avg * mean + w_sum * sum of the density over the footprint of id l of
\* tile k, as a fraction (weights in tenths)
OwnScore(k, l) ==
    LET n == Cardinality(Footprint(k, l))
        s == SumPixels(Val(full_overlap_mask), Footprint(k, l))
    IN  <<average_weight * s + sum_weight * s * n, 10 * n>>

\* C22 (as claimed): the coverage mapping of a tile has an entry for an id
\* iff the id covers at least min_pixels pixels of the tile, and the entry is
\* w_avg * mean + w_sum * sum of the density at the tile's own position.
C22_CoverageEntries ==
    RecombineStarted =>
        \A k \in 1 .. Len(Val(index_coverage_tiles)) :
            /\ DOMAIN Val(index_coverage_tiles)[k]
                  = {l \in NonZeroLabels(Val(confidence_segmentation_tiles)[k]) :
                        Cardinality(Footprint(k, l)) >= min_pixels}
            /\ \A l \in DOMAIN Val(index_coverage_tiles)[k] :
                  SameScore(Val(index_coverage_tiles)[k][l], OwnScore(k, l))

\* C27 (as claimed): in the final uncropped mosaic a pixel is non-zero iff
\* some confidence tile has there an instance with a coverage-score entry,
\* and the label there is one that a tile carries at exactly that pixel.
C27_ClaimedIffScored ==
    LoopDone =>
        \A p \in MosaicPixels :
            /\ Val(full_segmentation_mask).px[p] # 0
                  <=> \E k \in 1 .. idx : Scored(k, p)
            /\ Val(full_segmentation_mask).px[p] # 0
                  => \E k \in 1 .. idx :
                        Claims(k, p) /\ LabelAt(k, p) = Val(full_segmentation_mask).px[p]

\* C28 (as claimed): every recorded coverage score is at least
\* w_avg + w_sum * min_pixels, hence strictly positive.
C28_ScoresPositive ==
    RecombineStarted =>
        \A k \in 1 .. Len(Val(index_coverage_tiles)) :
            \A l \in DOMAIN Val(index_coverage_tiles)[k] :
                /\ HigherScore(Val(index_coverage_tiles)[k][l], <<0, 1>>)
                /\ ~HigherScore(<<average_weight + sum_weight * min_pixels, 10>>,
                                Val(index_coverage_tiles)[k][l])

\* C23: run_segmentation calls the predictor once for each consecutive batch
\* of at most batch_size tiles, in input order, ceil(n / batch_size) times in
\* all, and result i of the returned sequence is the prediction for tile i.
C23_BatchesInOrder ==
    ~IsNone(batch_run) =>
        LET b == Val(batch_run)
        IN  /\ \A k \in 1 .. Len(b.calls) :
                  /\ Len(b.calls[k]) >= 1
                  /\ Len(b.calls[k]) <= b.batch_size
                  /\ Len(b.calls[k]) = b.batch_size \/ k * b.batch_size > b.n
                  /\ \A j \in 1 .. Len(b.calls[k]) :
                        b.calls[k][j] = (k - 1) * b.batch_size + j - 1
            /\ \A t \in 1 .. Len(b.segmentation_tiles) :
                  b.segmentation_tiles[t].tile = t - 1
            /\ b.pc = "done" =>
                  /\ Len(b.calls) = (b.n + b.batch_size - 1) \div b.batch_size
                  /\ Len(b.segmentation_tiles) = b.n

\* C23 witness: a call has returned after more than one batch, the last of
\* them shorter than batch_size
C23_Witness ==
    /\ ~IsNone(batch_run)
    /\ Val(batch_run).pc = "done"
    /\ Len(Val(batch_run).calls) >= 2
    /\ Val(batch_run).n % Val(batch_run).batch_size # 0

\* C29 (as claimed): after any sequence of property reads and pixel writes,
\* on the image or through a slice view of it, a read of centroids returns
\* the centroids of the current array contents.
C29_ReadsAreCurrent ==
    call = "centroids" => returned = Some(CentroidsOf(Val(label_array)))

\* C30: has_missing_cells returns False for every SegmentationImage.
C30_NeverMissing ==
    call = "has_missing_cells" => returned = Some(FALSE)

\* C30 witness: the query has answered for an array whose labels leave a gap
\* (label 2 occurs, label 1 does not)
C30_Witness ==
    /\ call = "has_missing_cells"
    /\ returned = Some(FALSE)
    /\ 2 \in NonZeroLabels(Val(label_array))
    /\ 1 \notin NonZeroLabels(Val(label_array))

=============================================================================
